---------------------------- MODULE Spec2Model ----------------------------
(***************************************************************************)
(* Model of StreamlitDocxExtractor (src/code.py): the detail parser        *)
(* _parse_details_from_paragraphs, the ID generator _generate_id and the   *)
(* block loop of process.                                                  *)
(*                                                                         *)
(* Text is a sequence of tokens.  A token is a blank (WS), one bullet      *)
(* glyph character, or a word: a run of text that holds no glyph and       *)
(* neither starts nor ends with white space.  Identifiers and generated    *)
(* IDs are sequences of one-character strings.                             *)
(***************************************************************************)
EXTENDS Naturals, Sequences, FiniteSets

VARIABLES
    level1_bullets,      \* argument of process / the parser: level-1 glyph set
    level2_bullets,      \* argument of process / the parser: level-2 glyph set
    req_id,              \* argument of the parser: the block's identifier
    paragraphs,          \* the paragraphs the loop of the parser has gone through
    group_stack,         \* parser local: the open frames, bottom first
    final_requirements,  \* parser local: the records kept so far
    bfn_seq_counter,     \* parser local: next sequence number
    emitted,             \* the (group, detail) pairs that reached the dedup test
    pc,                  \* control position
    i,                   \* process: number of blocks gone through
    block,               \* process: the block of the current iteration
    all_requirements,    \* process: detail rows of all blocks
    high_level_reqs      \* process: summary rows

vars == <<level1_bullets, level2_bullets, req_id, paragraphs, group_stack,
          final_requirements, bfn_seq_counter, emitted, pc, i, block,
          all_requirements, high_level_reqs>>

parseVars == <<group_stack, final_requirements, bfn_seq_counter, emitted>>
processVars == <<i, block, all_requirements, high_level_reqs>>

-----------------------------------------------------------------------------
(* Bounds of the model *)

MaxLines == 3
MaxLevel == 2
MaxBlocks == 2

-----------------------------------------------------------------------------
(* Input alphabets *)

WS == " "
\* Bullet stands for the level-1 glyph of the scenarios (U+2022); "*" is one of
\* the level-1 glyphs the application offers by default
Bullet == "*"
Dash == "-"
GroupA == "Group A"
Item1 == "item 1"
Item2 == "item 2"

Level1Choices == {{}, {Bullet}, {Bullet, Dash}}
Level2Choices == {{}, {Dash}}

BlankTexts == {<<WS>>}
MarkerOnlyTexts == {<<Bullet>>}
BulletTexts == {<<Bullet, WS, GroupA>>, <<Dash, WS, Item1>>, <<Dash, WS, Item2>>}
PlainTexts == {<<Item1>>}
Texts == BlankTexts \cup MarkerOnlyTexts \cup BulletTexts \cup PlainTexts

Levels == 0..MaxLevel

Paragraph(t, l) == [text |-> t, level |-> l]
Paragraphs == {Paragraph(t, l) : t \in Texts, l \in Levels}

FUN001 == <<"F", "U", "N", "-", "0", "0", "1">>
SER012 == <<"S", "E", "R", "-", "0", "1", "2">>
ReqIds == {FUN001, SER012}

business_code == <<"M", "F", "D", "S">>

-----------------------------------------------------------------------------
(* String helpers *)

RECURSIVE DropWhile(_, _)
DropWhile(s, set) ==
    IF s # <<>> /\ Head(s) \in set THEN DropWhile(Tail(s), set) ELSE s

RECURSIVE TakeWhile(_, _)
TakeWhile(s, set) ==
    IF s # <<>> /\ Head(s) \in set THEN <<Head(s)>> \o TakeWhile(Tail(s), set) ELSE <<>>

RECURSIVE Reverse(_)
Reverse(s) == IF s = <<>> THEN <<>> ELSE Append(Reverse(Tail(s)), Head(s))

\* str.strip(): leading and trailing white space removed
Strip(s) == Reverse(DropWhile(Reverse(DropWhile(s, {WS})), {WS}))

\* re '^\s*[bullets]' .search(text); an empty class does not compile, see CompileFails
PatternSearch(bullets, text) ==
    LET r == DropWhile(text, {WS})
    IN r # <<>> /\ Head(r) \in bullets

\* re.sub('^\s*[bullets]+\s*', '', text)
SubMarker(bullets, text) ==
    IF PatternSearch(bullets, text)
    THEN DropWhile(DropWhile(DropWhile(text, {WS}), bullets), {WS})
    ELSE text

\* re.compile of '^\s*[' + escape(bullets) + ']' raises re.error for no glyph
CompileFails(bullets) == bullets = {}

-----------------------------------------------------------------------------
(* _generate_id *)

DigitChars == <<"0", "1", "2", "3", "4", "5", "6", "7", "8", "9">>
DigitSet == {DigitChars[k] : k \in 1..10}

RECURSIVE Decimal(_)
Decimal(n) ==
    IF n < 10 THEN <<DigitChars[n + 1]>>
    ELSE Append(Decimal(n \div 10), DigitChars[(n % 10) + 1])

\* f"{sequence:03d}"
Format03d(n) ==
    LET d == Decimal(n)
    IN IF Len(d) >= 3 THEN d
       ELSE IF Len(d) = 2 THEN <<"0">> \o d
       ELSE <<"0", "0">> \o d

StartsWith(s, prefix) ==
    Len(s) >= Len(prefix) /\ SubSeq(s, 1, Len(prefix)) = prefix

\* re.search(r'\d+', req_id): the first run of digits, <<>> when there is none
FirstDigitRun(s) == TakeWhile(DropWhile(s, {c \in {s[k] : k \in 1..Len(s)} : c \notin DigitSet}), DigitSet)

generate_id(rid, sequence) ==
    LET req_type_code == IF StartsWith(rid, <<"F", "U", "N">>) THEN "F" ELSE "Q"
        run == FirstDigitRun(rid)
        id_num == IF run # <<>> THEN run ELSE <<"0", "0", "0">>
    IN <<"R", "E", "Q", "-">> \o business_code \o <<"-", req_type_code, "-">>
       \o id_num \o Format03d(sequence)

-----------------------------------------------------------------------------
(* _parse_details_from_paragraphs *)

Frame(title, level) == [title |-> title, level |-> level]
Requirement(group, detail, id) == [group |-> group, detail |-> detail, id |-> id]

\* the locals of the parser when the loop starts
ParseStart ==
    [group_stack |-> <<>>, final_requirements |-> <<>>, bfn_seq_counter |-> 1,
     emitted |-> <<>>]

is_level1(l1, text) == PatternSearch(l1, text)
is_level2(l2, text) == PatternSearch(l2, text)

\* variant: the test of line 57 left out
NotBulleted_Never(l1, l2, text) == FALSE

\* "if not is_level1 and not is_level2: continue"
NotBulleted(l1, l2, text) == ~is_level1(l1, text) /\ ~is_level2(l2, text)

\* variant: line 59 with <= for <
RECURSIVE PopDeeper_Tie(_, _)
PopDeeper_Tie(stack, current_level) ==
    IF stack # <<>> /\ current_level <= stack[Len(stack)].level
    THEN PopDeeper_Tie(SubSeq(stack, 1, Len(stack) - 1), current_level)
    ELSE stack

\* "while group_stack and current_level < group_stack[-1]['level']: pop"
RECURSIVE PopDeeper(_, _)
PopDeeper(stack, current_level) ==
    IF stack # <<>> /\ current_level < stack[Len(stack)].level
    THEN PopDeeper(SubSeq(stack, 1, Len(stack) - 1), current_level)
    ELSE stack

\* variant: line 67 with < for <=
RECURSIVE PopForLevel1_Strict(_, _)
PopForLevel1_Strict(stack, current_level) ==
    IF stack # <<>> /\ current_level < stack[Len(stack)].level
    THEN PopForLevel1_Strict(SubSeq(stack, 1, Len(stack) - 1), current_level)
    ELSE stack

\* "while group_stack and current_level <= group_stack[-1]['level']: pop"
RECURSIVE PopForLevel1(_, _)
PopForLevel1(stack, current_level) ==
    IF stack # <<>> /\ current_level <= stack[Len(stack)].level
    THEN PopForLevel1(SubSeq(stack, 1, Len(stack) - 1), current_level)
    ELSE stack

\* variant: line 63 without the white space after the marker run and without strip()
clean_line_NoStrip(l1, l2, text) ==
    IF PatternSearch(l1 \cup l2, text)
    THEN DropWhile(DropWhile(text, {WS}), l1 \cup l2)
    ELSE text

\* line 63
clean_line(l1, l2, text) == Strip(SubMarker(l1 \cup l2, text))

\* variant: line 78 comparing the detail alone
is_duplicate_DetailOnly(reqs, group_name, detail_content) ==
    \E k \in 1..Len(reqs) : reqs[k].detail = detail_content

\* line 78
is_duplicate(reqs, group_name, detail_content) ==
    \E k \in 1..Len(reqs) :
        reqs[k].group = group_name /\ reqs[k].detail = detail_content

\* variant: line 84 outside the "if not is_duplicate"
CounterAfter_Always(counter, duplicate) == counter + 1

\* the counter after a line that reached the dedup test
CounterAfter(counter, duplicate) == IF duplicate THEN counter ELSE counter + 1

\* variant: line 72 putting the level-2 line on the stack
StackAfter_Level2Pushed(popped, level1, clean, current_level) ==
    IF level1
    THEN Append(PopForLevel1(popped, current_level), Frame(clean, current_level))
    ELSE Append(popped, Frame(clean, current_level))

\* lines 66-72: a level-1 line closes its siblings and opens a frame; a level-2
\* line is not put on the stack
StackAfter(popped, level1, clean, current_level) ==
    IF level1
    THEN Append(PopForLevel1(popped, current_level), Frame(clean, current_level))
    ELSE popped

\* one iteration of "for p in paragraphs"
LoopBody(st, p, rid, l1, l2) ==
    IF Strip(p.text) = <<>> THEN st
    ELSE IF NotBulleted(l1, l2, p.text) THEN st
    ELSE
      LET popped == PopDeeper(st.group_stack, p.level)
          clean == clean_line(l1, l2, p.text)
      IN IF clean = <<>> THEN [st EXCEPT !.group_stack = popped]
         ELSE
           LET stack == StackAfter(popped, is_level1(l1, p.text), clean, p.level)
           IN IF stack = <<>> THEN [st EXCEPT !.group_stack = stack]
              ELSE
                LET group_name == stack[1].title
                    dup == is_duplicate(st.final_requirements, group_name, clean)
                IN [group_stack |-> stack,
                    final_requirements |->
                        IF dup THEN st.final_requirements
                        ELSE Append(st.final_requirements,
                                    Requirement(group_name, clean,
                                                generate_id(rid, st.bfn_seq_counter))),
                    bfn_seq_counter |-> CounterAfter(st.bfn_seq_counter, dup),
                    emitted |-> Append(st.emitted, <<group_name, clean>>)]

\* the whole loop over a list of paragraphs
RECURSIVE RunLoop(_, _, _, _, _)
RunLoop(st, ps, rid, l1, l2) ==
    IF ps = <<>> THEN st
    ELSE RunLoop(LoopBody(st, Head(ps), rid, l1, l2), Tail(ps), rid, l1, l2)

\* the parser's return value; it raises when a pattern does not compile
ParseRaises(l1, l2) == CompileFails(l1) \/ CompileFails(l2)
parse_details_from_paragraphs(ps, rid, l1, l2) ==
    RunLoop(ParseStart, ps, rid, l1, l2).final_requirements

CurrentParse ==
    [group_stack |-> group_stack, final_requirements |-> final_requirements,
     bfn_seq_counter |-> bfn_seq_counter, emitted |-> emitted]

-----------------------------------------------------------------------------
(* The parser run step by step *)

NoBlock == [id |-> <<>>, name |-> "", details |-> FALSE, lines |-> <<>>]

InitParse ==
    /\ level1_bullets \in Level1Choices
    /\ level2_bullets \in Level2Choices
    /\ req_id = FUN001
    /\ paragraphs = <<>>
    /\ group_stack = <<>>
    /\ final_requirements = <<>>
    /\ bfn_seq_counter = 1
    /\ emitted = <<>>
    /\ pc = "call"
    /\ i = 0
    /\ block = NoBlock
    /\ all_requirements = <<>>
    /\ high_level_reqs = <<>>

\* lines 41-46: the locals are set and both patterns compiled
ParseCall ==
    /\ pc = "call"
    /\ pc' = IF ParseRaises(level1_bullets, level2_bullets) THEN "error" ELSE "loop"
    /\ UNCHANGED <<level1_bullets, level2_bullets, req_id, paragraphs>>
    /\ UNCHANGED parseVars
    /\ UNCHANGED processVars

\* lines 48-84: one paragraph
ProcessParagraph(p) ==
    /\ pc = "loop"
    /\ Len(paragraphs) < MaxLines
    /\ LET st == LoopBody(CurrentParse, p, req_id, level1_bullets, level2_bullets)
       IN /\ group_stack' = st.group_stack
          /\ final_requirements' = st.final_requirements
          /\ bfn_seq_counter' = st.bfn_seq_counter
          /\ emitted' = st.emitted
    /\ paragraphs' = Append(paragraphs, p)
    /\ UNCHANGED <<level1_bullets, level2_bullets, req_id, pc>>
    /\ UNCHANGED processVars

NextParagraph == \E p \in Paragraphs : ProcessParagraph(p)

\* line 85
ParseReturn ==
    /\ pc = "loop"
    /\ pc' = "returned"
    /\ UNCHANGED <<level1_bullets, level2_bullets, req_id, paragraphs>>
    /\ UNCHANGED parseVars
    /\ UNCHANGED processVars

NextParse == ParseCall \/ NextParagraph \/ ParseReturn

SpecParse == InitParse /\ [][NextParse]_vars

-----------------------------------------------------------------------------
(* process: the loop over the blocks *)

\* what the two searches of lines 102-103 give: the identifier or the name
\* caught, or no match
NoMatch == <<>>
NoName == ""
Names == {"name"}

ScenarioLines(l) ==
    <<Paragraph(<<Bullet, WS, GroupA>>, l), Paragraph(<<Dash, WS, Item1>>, l),
      Paragraph(<<Dash, WS, Item2>>, l)>>

\* the paragraphs that follow the details label of a block
BlockBodies == {SubSeq(ScenarioLines(0), 1, n) : n \in 0..3}

\* a block: the identifier and the name its text gives, whether a paragraph
\* holds the details label, and the paragraphs after that label
Blocks ==
    [id : ReqIds \cup {NoMatch}, name : Names \cup {NoName},
     details : BOOLEAN, lines : BlockBodies]

\* variant: line 105 testing the identifier alone
BlockValid_IdOnly(b) == b.id # NoMatch

\* "if not req_id_match or not req_name_match: continue", negated
BlockValid(b) == b.id # NoMatch /\ b.name # NoName

DetailRow(r, rid, name) ==
    [group |-> r.group, detail |-> r.detail, id |-> r.id,
     source_id |-> rid, source_name |-> name]

SummaryRow(parsed, rid, name) ==
    [id |-> rid, name |-> name,
     type |-> IF StartsWith(rid, <<"F", "U", "N">>) THEN "functional" ELSE "non-functional",
     groups |-> Cardinality({parsed[k].group : k \in 1..Len(parsed)}),
     total |-> Len(parsed)]

InitProcess ==
    /\ level1_bullets \in Level1Choices
    /\ level2_bullets \in Level2Choices
    /\ req_id = NoMatch
    /\ paragraphs = <<>>
    /\ group_stack = <<>>
    /\ final_requirements = <<>>
    /\ bfn_seq_counter = 1
    /\ emitted = <<>>
    /\ pc = "blocks"
    /\ i = 0
    /\ block = NoBlock
    /\ all_requirements = <<>>
    /\ high_level_reqs = <<>>

\* line 105: a block without identifier or without name is passed over
BlockSkipped(b) ==
    /\ pc = "blocks"
    /\ i < MaxBlocks
    /\ ~BlockValid(b)
    /\ i' = i + 1
    /\ block' = b
    /\ UNCHANGED <<level1_bullets, level2_bullets, req_id, paragraphs, pc,
                   all_requirements, high_level_reqs>>
    /\ UNCHANGED parseVars

\* lines 106-110: a valid block with no details label
BlockWithoutDetails(b) ==
    /\ pc = "blocks"
    /\ i < MaxBlocks
    /\ BlockValid(b)
    /\ ~b.details
    /\ i' = i + 1
    /\ block' = b
    /\ req_id' = b.id
    /\ UNCHANGED <<level1_bullets, level2_bullets, paragraphs, pc,
                   all_requirements, high_level_reqs>>
    /\ UNCHANGED parseVars

\* lines 106-127: a valid block with a details label; the parser is called
BlockWithDetails(b) ==
    /\ pc = "blocks"
    /\ i < MaxBlocks
    /\ BlockValid(b)
    /\ b.details
    /\ i' = i + 1
    /\ block' = b
    /\ req_id' = b.id
    /\ IF ParseRaises(level1_bullets, level2_bullets)
       THEN /\ pc' = "error"
            /\ UNCHANGED <<all_requirements, high_level_reqs>>
       ELSE LET parsed == parse_details_from_paragraphs(b.lines, b.id,
                              level1_bullets, level2_bullets)
            IN /\ pc' = pc
               /\ all_requirements' = all_requirements \o
                      [k \in 1..Len(parsed) |-> DetailRow(parsed[k], b.id, b.name)]
               /\ high_level_reqs' =
                      IF parsed # <<>>
                      THEN Append(high_level_reqs, SummaryRow(parsed, b.id, b.name))
                      ELSE high_level_reqs
    /\ UNCHANGED <<level1_bullets, level2_bullets, paragraphs>>
    /\ UNCHANGED parseVars

SkipBlock == \E b \in Blocks : BlockSkipped(b)
PlainBlock == \E b \in Blocks : BlockWithoutDetails(b)
DetailBlock == \E b \in Blocks : BlockWithDetails(b)

\* lines 128-130 (and line 92 when there is no block)
Finish ==
    /\ pc = "blocks"
    /\ pc' = "done"
    /\ UNCHANGED <<level1_bullets, level2_bullets, req_id, paragraphs>>
    /\ UNCHANGED parseVars
    /\ UNCHANGED processVars

NextProcess == SkipBlock \/ PlainBlock \/ DetailBlock \/ Finish

SpecProcess == InitProcess /\ [][NextProcess]_vars

-----------------------------------------------------------------------------
(* Properties *)

Pairs(reqs) == [k \in 1..Len(reqs) |-> <<reqs[k].group, reqs[k].detail>>]

\* s without the elements that occurred earlier in s
RECURSIVE FirstOccurrences(_)
FirstOccurrences(s) ==
    IF s = <<>> THEN <<>>
    ELSE LET front == SubSeq(s, 1, Len(s) - 1)
             last == s[Len(s)]
         IN IF \E k \in 1..Len(front) : front[k] = last
            THEN FirstOccurrences(front)
            ELSE Append(FirstOccurrences(front), last)

LastParagraph == paragraphs[Len(paragraphs)]
AllGlyphs == level1_bullets \cup level2_bullets
FirstMark(text) == DropWhile(text, {WS})

\* the kinds of line, read off the text
Blank(text) == \A k \in 1..Len(text) : text[k] = WS
Level1Line(text) == ~Blank(text) /\ Head(FirstMark(text)) \in level1_bullets
Level2Line(text) == ~Blank(text) /\ Head(FirstMark(text)) \in level2_bullets
PlainLine(text) == ~Blank(text) /\ Head(FirstMark(text)) \notin AllGlyphs

\* c is the content of text: text is blanks and glyphs, then c, then blanks
IsContentOf(c, text) ==
    /\ c # <<>>
    /\ c[1] \notin AllGlyphs \cup {WS}
    /\ c[Len(c)] # WS
    /\ \E a \in 0..Len(text) :
          /\ a + Len(c) <= Len(text)
          /\ SubSeq(text, a + 1, a + Len(c)) = c
          /\ \A k \in 1..a : text[k] \in AllGlyphs \cup {WS}
          /\ \A k \in (a + Len(c) + 1)..Len(text) : text[k] = WS
Contents(text) ==
    {c \in {SubSeq(text, a, b) : a, b \in 1..Len(text)} : IsContentOf(c, text)}
NoContent(text) == \A k \in 1..Len(text) : text[k] \in AllGlyphs \cup {WS}

\* a step of the loop that takes paragraph p
Takes(p) == pc = "loop" /\ paragraphs' = Append(paragraphs, p)

KeepBelow(stack, level) == SelectSeq(stack, LAMBDA f : f.level < level)
KeepUpTo(stack, level) == SelectSeq(stack, LAMBDA f : f.level <= level)

\* C1: after every paragraph the levels of the frames of group_stack are
\* strictly increasing from the bottom to the top
C1_StackStrictlyIncreasing ==
    \A k \in 1..(Len(group_stack) - 1) :
        group_stack[k].level < group_stack[k + 1].level

\* three level-1 lines, the third a sibling of the second: two frames are open
C1_Witness ==
    /\ Len(paragraphs) = 3
    /\ \A k \in 1..3 : Level1Line(paragraphs[k].text) /\ ~NoContent(paragraphs[k].text)
    /\ paragraphs[1].level < paragraphs[2].level
    /\ paragraphs[2].level = paragraphs[3].level
    /\ Len(group_stack) = 2

\* C2: no two records of a block share group and detail; of the pairs that
\* reached the dedup test the first occurrences are kept, in document order
C2_FirstOccurrencesKept ==
    /\ \A j, k \in 1..Len(final_requirements) :
          (final_requirements[j].group = final_requirements[k].group
           /\ final_requirements[j].detail = final_requirements[k].detail) => j = k
    /\ Pairs(final_requirements) = FirstOccurrences(emitted)

\* a pair came twice and was kept once, between two other records
C2_Witness ==
    /\ pc = "returned"
    /\ Len(emitted) = 3
    /\ emitted[1] = emitted[2]
    /\ emitted[3] # emitted[1]
    /\ Len(final_requirements) = 2

SeqDigits == <<"1", "2", "3", "4", "5", "6", "7", "8", "9">>

\* C3: the k-th record of a block carries sequence number k, so the IDs of a
\* block are distinct; for FUN-001 the IDs are REQ-MFDS-F-001 followed by
\* 001, 002, 003, ...
C3_ContiguousSequence ==
    /\ bfn_seq_counter = Len(final_requirements) + 1
    /\ \A j, k \in 1..Len(final_requirements) :
          final_requirements[j].id = final_requirements[k].id => j = k
    /\ req_id = FUN001 =>
          \A k \in 1..Len(final_requirements) :
              k <= 9 => final_requirements[k].id =
                  <<"R", "E", "Q", "-", "M", "F", "D", "S", "-", "F", "-",
                    "0", "0", "1", "0", "0", SeqDigits[k]>>

\* a duplicate line was dropped between the first and the second record
C3_Witness ==
    /\ req_id = FUN001
    /\ Len(emitted) = 3
    /\ emitted[1] = emitted[2]
    /\ Len(final_requirements) = 2
    /\ final_requirements[2].detail = emitted[3][2]

\* C4: a block whose text gives no identifier or no name adds no detail row
\* and no summary row, whatever else it holds, leaves the rows of the other
\* blocks as they are, and raises no error
C4_InvalidBlockDropped ==
    [][(i' = i + 1 /\ (block'.id = NoMatch \/ block'.name = NoName))
        => (all_requirements' = all_requirements
            /\ high_level_reqs' = high_level_reqs
            /\ pc' # "error")]_vars

\* a block with identifier, details label and bullet lines but no name was
\* passed over after another block had given rows
C4_Witness ==
    /\ i = 2
    /\ block.id # NoMatch
    /\ block.name = NoName
    /\ block.details
    /\ Len(block.lines) = 3
    /\ Len(all_requirements) = 3
    /\ Len(high_level_reqs) = 1
    /\ pc = "done"

\* C5: with an empty level-1 or level-2 glyph set, processing does not fail
C5_EmptyGlyphSetNoFailure ==
    (level1_bullets = {} \/ level2_bullets = {}) => pc # "error"

ScenarioA(l) ==
    /\ level1_bullets = {Bullet}
    /\ level2_bullets = {Dash}
    /\ paragraphs = ScenarioLines(l)

\* C7 as stated: the three lines of scenario A give exactly two records,
\* (Group A, item 1) and (Group A, item 2)
C7_ScenarioATwoRecords ==
    \A l \in Levels :
        ScenarioA(l) => Pairs(final_requirements) =
            <<(<<(<<GroupA>>), (<<Item1>>)>>), (<<(<<GroupA>>), (<<Item2>>)>>)>>

\* C7 amended: the three lines of scenario A give exactly three records, all of
\* group "Group A": the header's own, then item 1 and item 2
C7_ScenarioAThreeRecords ==
    \A l \in Levels :
        ScenarioA(l) => Pairs(final_requirements) =
            <<(<<(<<GroupA>>), (<<GroupA>>)>>), (<<(<<GroupA>>), (<<Item1>>)>>),
              (<<(<<GroupA>>), (<<Item2>>)>>)>>

C7_Witness ==
    /\ ScenarioA(0)
    /\ pc = "returned"
    /\ Len(final_requirements) = 3

\* C8: after a level-1 line with content has opened a group (it is frame 0)
\* and before any later line, the records hold exactly one record whose group
\* and detail are both the content of the line; when it is the only line, that
\* record is the whole result
C8_HeaderSelfRecord ==
    (/\ paragraphs # <<>>
     /\ Level1Line(LastParagraph.text)
     /\ ~NoContent(LastParagraph.text)
     /\ Len(group_stack) = 1)
    => /\ Contents(LastParagraph.text) # {}
       /\ \A c \in Contents(LastParagraph.text) :
             /\ group_stack[1].title = c
             /\ Cardinality({k \in 1..Len(final_requirements) :
                    final_requirements[k].group = c
                    /\ final_requirements[k].detail = c}) = 1
             /\ Len(paragraphs) = 1 => Pairs(final_requirements) = <<(<<c, c>>)>>

\* the single header line was parsed and the parser returned
C8_Witness ==
    /\ pc = "returned"
    /\ paragraphs = <<Paragraph(<<Bullet, WS, GroupA>>, 0)>>
    /\ Pairs(final_requirements) = <<(<<(<<GroupA>>), (<<GroupA>>)>>)>>

\* the frames this line found open and left open
LeftOpen(p) ==
    IF Level1Line(p.text) /\ ~NoContent(p.text)
    THEN SubSeq(group_stack', 1, Len(group_stack') - 1)
    ELSE group_stack'

\* C9 as stated: every level-1 or level-2 line closes every frame whose level
\* is greater than or equal to its indentation
C9_PopOnTieForEveryLine ==
    [][\A p \in Paragraphs :
          (Takes(p) /\ (Level1Line(p.text) \/ Level2Line(p.text)) /\ group_stack # <<>>)
          => LeftOpen(p) = KeepBelow(group_stack, p.level)]_vars

\* C9 amended: every level-1 or level-2 line closes the frames whose level is
\* greater than its indentation; the frames of equal level are closed only by a
\* level-1 line with content, which is then put on the stack; a level-2 line of
\* the indentation of the top frame leaves it open and is recorded under the
\* group of frame 0
C9_PopStrictExceptLevel1 ==
    [][\A p \in Paragraphs :
          (Takes(p) /\ (Level1Line(p.text) \/ Level2Line(p.text)))
          => IF Level1Line(p.text) /\ ~NoContent(p.text)
             THEN /\ group_stack' # <<>>
                  /\ LeftOpen(p) = KeepBelow(group_stack, p.level)
                  /\ group_stack'[Len(group_stack')].level = p.level
             ELSE /\ group_stack' = KeepUpTo(group_stack, p.level)
                  /\ (~NoContent(p.text) /\ group_stack' # <<>>)
                     => /\ Len(emitted') = Len(emitted) + 1
                        /\ emitted'[Len(emitted')][1] = group_stack'[1].title]_vars

\* a level-2 line came at the indentation of the top frame, which stayed open
C9_Witness ==
    /\ Len(paragraphs) = 2
    /\ Level1Line(paragraphs[1].text)
    /\ ~Level1Line(paragraphs[2].text)
    /\ Level2Line(paragraphs[2].text)
    /\ paragraphs[1].level = paragraphs[2].level
    /\ Len(group_stack) = 1
    /\ group_stack[1].level = paragraphs[2].level
    /\ Len(final_requirements) = 2

\* C10: a line with no content after the marker run leaves the stack, the
\* records and the counter as they are
C10_EmptyContentNoEffect ==
    [][\A p \in Paragraphs :
          (Takes(p) /\ NoContent(p.text))
          => UNCHANGED <<group_stack, final_requirements, bfn_seq_counter>>]_vars

=============================================================================
